---- MODULE Spec2Model ----
(***************************************************************************)
(* Model of POC/pdf-server/server.py: the POST /upload handler upload_pdf, *)
(* the extraction function extract_pdf_data, and the files they share.     *)
(*                                                                         *)
(* A file's contents and a text are sequences of symbols; a filename and a *)
(* path are sequences of path components; the file system maps resolved    *)
(* paths to contents.  Request r is the r-th request to arrive; it runs    *)
(* upload_pdf in a frame of its own, one source line per step.  Spec       *)
(* serves one request at a time; ConcSpec lets requests overlap, as the    *)
(* threads of the development server do.  Failures of the disk itself      *)
(* (permissions, disk full) are not modelled.                              *)
(***************************************************************************)
EXTENDS Integers, Sequences, FiniteSets, TLC

\* Number of requests the service receives in a run.
NReq == 2

Reqs == 1..NReq

-----------------------------------------------------------------------------
(* Documents and file contents *)

Hello == <<"H", "e", "l", "l", "o">>
World == <<"W", "o", "r", "l", "d">>
Bye   == <<"B">>
Blank == <<>>

\* a page whose get_text succeeds, and one on which get_text raises
Page(t) == [ok |-> TRUE, text |-> t]
BadPage == [ok |-> FALSE, text |-> <<>>]

\* uploaded byte streams, by name: four documents and one that is no document
Docs == {"A", "B", "Zero", "Bad", "Junk"}

\* the bytes of an uploaded stream
Bytes(d) == IF d = "Junk" THEN <<"junk">> ELSE <<"%PDF", d>>

\* the pages the library finds in a document
PagesOf(d) ==
    CASE d = "A"    -> <<Page(Hello), Page(World)>>
      [] d = "B"    -> <<Page(Bye), Page(Blank), Page(Bye)>>
      [] d = "Bad"  -> <<Page(Hello), BadPage>>
      [] OTHER      -> <<>>

Absent    == [exists |-> FALSE, data |-> <<>>]
File(b)   == [exists |-> TRUE, data |-> b]

\* open(path, 'w') / open(path, 'wb'): the file is created or cut to length 0
Truncated(c) == File(<<>>)

\* a write of b at offset 0 of an open file: bytes beyond b stay
WriteAt0(c, b) == File(b \o SubSeq(c.data, Len(b) + 1, Len(c.data)))

\* fitz.open(path): succeeds on the bytes of a document
CanOpen(c) == c.exists /\ \E d \in Docs \ {"Junk"} : c.data = Bytes(d)
OpenedPages(c) == PagesOf(CHOOSE d \in Docs \ {"Junk"} : c.data = Bytes(d))

-----------------------------------------------------------------------------
(* Paths *)

UPLOAD_FOLDER == <<".", "uploads">>
OUTPUT_NAME   == <<"extracted_text.txt">>

NameA      == <<"a.pdf">>
NameUp     == <<"..", "evil.pdf">>
NameAbs    == <<"/", "tmp", "evil.pdf">>
EmptyName  == <<>>

Filenames == {NameA, OUTPUT_NAME, NameUp, NameAbs}

IsAbs(p) == p # <<>> /\ p[1] = "/"

\* a join that keeps only the last component of the name
JoinBasename(a, b) == IF b = <<>> THEN a ELSE a \o <<b[Len(b)]>>

\* os.path.join(a, b): an absolute b discards a
Join(a, b) == IF IsAbs(b) THEN b ELSE a \o b

\* the file a path names, seen from the working directory
RECURSIVE Walk(_, _)
Walk(stack, rest) ==
    IF rest = <<>> THEN stack
    ELSE LET c == Head(rest)
             n == Len(stack)
         IN  IF c = "." THEN Walk(stack, Tail(rest))
             ELSE IF c = ".."
                  THEN IF n = 0 \/ stack[n] = ".."
                       THEN Walk(Append(stack, c), Tail(rest))
                       ELSE IF stack = <<"/">>
                            THEN Walk(stack, Tail(rest))
                            ELSE Walk(SubSeq(stack, 1, n - 1), Tail(rest))
                  ELSE Walk(Append(stack, c), Tail(rest))

Resolve(p) == Walk(<<>>, p)

UploadDir == Resolve(UPLOAD_FOLDER)

InUploadDir(p) ==
    /\ Len(p) > Len(UploadDir)
    /\ SubSeq(p, 1, Len(UploadDir)) = UploadDir

OutputPath == Join(UPLOAD_FOLDER, OUTPUT_NAME)
Out == Resolve(OutputPath)

Paths == {Resolve(Join(UPLOAD_FOLDER, f)) : f \in Filenames} \cup {Out}

-----------------------------------------------------------------------------
(* State *)

VARIABLES
    fs,             \* resolved path -> contents
    pc,             \* request -> position in upload_pdf
    req,            \* request -> hasFile, filename, doc
    file_path,      \* request -> upload_pdf's file_path
    pdf,            \* request -> extract_pdf_data's opened document (its pages)
    page_num,       \* request -> extract_pdf_data's loop index
    extracted_text, \* request -> the accumulator, then upload_pdf's extracted_text
    resp,           \* request -> the response
    before,         \* request -> the file system when the request arrived
    invoked         \* request -> extract_pdf_data was called

vars == <<fs, pc, req, file_path, pdf, page_num, extracted_text, resp,
          before, invoked>>

NoReq  == [hasFile |-> FALSE, filename |-> EmptyName, doc |-> "Junk"]
NoResp == [status |-> 0, error |-> "", file |-> Absent, attachment |-> FALSE]

Requests ==
    {NoReq}
    \cup {[hasFile |-> TRUE, filename |-> EmptyName, doc |-> d] : d \in {"A", "Junk"}}
    \cup {[hasFile |-> TRUE, filename |-> f, doc |-> d] : f \in Filenames, d \in Docs}

\* the requests of the overlapping runs
ConcRequests ==
    {[hasFile |-> TRUE, filename |-> NameA, doc |-> d] : d \in {"A", "B"}}

\* what an earlier run of the service may have left in the output file
OldText == File(<<"o", "l", "d", "e", "r", " ", "t", "e", "x", "t">>)

\* os.makedirs(UPLOAD_FOLDER, exist_ok=True): the directory is new or kept
Init ==
    /\ fs \in {[p \in Paths |-> IF p = Out THEN c ELSE Absent] : c \in {Absent, OldText}}
    /\ pc = [r \in Reqs |-> "idle"]
    /\ req = [r \in Reqs |-> NoReq]
    /\ file_path = [r \in Reqs |-> <<>>]
    /\ pdf = [r \in Reqs |-> <<>>]
    /\ page_num = [r \in Reqs |-> 0]
    /\ extracted_text = [r \in Reqs |-> <<>>]
    /\ resp = [r \in Reqs |-> NoResp]
    /\ before = [r \in Reqs |-> fs]
    /\ invoked = [r \in Reqs |-> FALSE]

-----------------------------------------------------------------------------
(* The handler, one step per source line *)

\* the frame is dropped and the response goes out
Respond(r, response) ==
    /\ resp' = [resp EXCEPT ![r] = response]
    /\ pc' = [pc EXCEPT ![r] = "done"]
    /\ file_path' = [file_path EXCEPT ![r] = <<>>]
    /\ pdf' = [pdf EXCEPT ![r] = <<>>]
    /\ page_num' = [page_num EXCEPT ![r] = 0]
    /\ extracted_text' = [extracted_text EXCEPT ![r] = <<>>]

\* an error payload sent without the status code
ErrorResponseOk(msg) ==
    [status |-> 200, error |-> msg, file |-> Absent, attachment |-> FALSE]

\* jsonify({"error": msg}), 400
ErrorResponse(msg) ==
    [status |-> 400, error |-> msg, file |-> Absent, attachment |-> FALSE]

\* an exception leaves upload_pdf: the framework answers 500, no JSON body
ServerError ==
    [status |-> 500, error |-> "", file |-> Absent, attachment |-> FALSE]

\* send_file(path, as_attachment=True)
FileResponse(c) ==
    [status |-> 200, error |-> "", file |-> c, attachment |-> TRUE]

Raise(r) == Respond(r, ServerError) /\ UNCHANGED fs

\* a POST /upload request arrives: request r after request r - 1
ReceiveFrom(r, Q) ==
    /\ pc[r] = "idle"
    /\ r > 1 => pc[r - 1] # "idle"
    /\ \E q \in Q : req' = [req EXCEPT ![r] = q]
    /\ pc' = [pc EXCEPT ![r] = "check_file"]
    /\ before' = [before EXCEPT ![r] = fs]
    /\ UNCHANGED <<fs, file_path, pdf, page_num, extracted_text, resp, invoked>>

\* a missing file field that is noticed but not returned on
CheckFileFieldNoReturn(r) ==
    /\ pc[r] = "check_file"
    /\ pc' = [pc EXCEPT ![r] = "check_name"]
    /\ UNCHANGED <<fs, req, before, invoked, file_path, pdf, page_num,
                   extracted_text, resp>>

\* if 'file' not in request.files: return jsonify(...), 400
CheckFileField(r) ==
    /\ pc[r] = "check_file"
    /\ IF ~req[r].hasFile
       THEN Respond(r, ErrorResponse("No file uploaded"))
       ELSE /\ pc' = [pc EXCEPT ![r] = "check_name"]
            /\ UNCHANGED <<file_path, pdf, page_num, extracted_text, resp>>
    /\ UNCHANGED <<fs, req, before, invoked>>

\* file = request.files['file']; if file.filename == '': return jsonify(...), 400
\* file_path = os.path.join(UPLOAD_FOLDER, file.filename)
CheckFilename(r) ==
    /\ pc[r] = "check_name"
    /\ IF req[r].filename = EmptyName
       THEN Respond(r, ErrorResponse("No selected file"))
       ELSE /\ pc' = [pc EXCEPT ![r] = "save_open"]
            /\ file_path' = [file_path EXCEPT ![r] = Join(UPLOAD_FOLDER, req[r].filename)]
            /\ UNCHANGED <<pdf, page_num, extracted_text, resp>>
    /\ UNCHANGED <<fs, req, before, invoked>>

\* a save that refuses to replace an existing file
SaveOpenExclusive(r) ==
    /\ pc[r] = "save_open"
    /\ IF fs[Resolve(file_path[r])].exists
       THEN Raise(r)
       ELSE /\ fs' = [fs EXCEPT ![Resolve(file_path[r])] = Truncated(@)]
            /\ pc' = [pc EXCEPT ![r] = "save_write"]
            /\ UNCHANGED <<file_path, pdf, page_num, extracted_text, resp>>
    /\ UNCHANGED <<req, before, invoked>>

\* file.save(file_path): the destination is opened for writing
SaveOpen(r) ==
    /\ pc[r] = "save_open"
    /\ fs' = [fs EXCEPT ![Resolve(file_path[r])] = Truncated(@)]
    /\ pc' = [pc EXCEPT ![r] = "save_write"]
    /\ UNCHANGED <<req, file_path, pdf, page_num, extracted_text, resp,
                   before, invoked>>

\* file.save(file_path): the uploaded bytes are copied and the file closed
SaveWrite(r) ==
    /\ pc[r] = "save_write"
    /\ fs' = [fs EXCEPT ![Resolve(file_path[r])] = WriteAt0(@, Bytes(req[r].doc))]
    /\ pc' = [pc EXCEPT ![r] = "open_pdf"]
    /\ UNCHANGED <<req, file_path, pdf, page_num, extracted_text, resp,
                   before, invoked>>

\* extract_pdf_data(file_path): extracted_text = ""; with fitz.open(file_path) as pdf
OpenPdf(r) ==
    /\ pc[r] = "open_pdf"
    /\ invoked' = [invoked EXCEPT ![r] = TRUE]
    /\ LET c == fs[Resolve(file_path[r])]
       IN  IF CanOpen(c)
           THEN /\ pdf' = [pdf EXCEPT ![r] = OpenedPages(c)]
                /\ extracted_text' = [extracted_text EXCEPT ![r] = <<>>]
                /\ page_num' = [page_num EXCEPT ![r] = 0]
                /\ pc' = [pc EXCEPT ![r] = "loop"]
                /\ UNCHANGED <<fs, file_path, resp>>
           ELSE Raise(r)
    /\ UNCHANGED <<req, before>>

\* a loop body that puts the separator between pages only
AppendPageJoin(acc, page) ==
    IF acc = <<>> THEN page.text ELSE (acc \o <<"\n", "\n">>) \o page.text

\* extracted_text += page.get_text("text"); extracted_text += "\n\n"
AppendPage(acc, page) == (acc \o page.text) \o <<"\n", "\n">>

\* a loop that refuses a document without pages
PageLoopNonEmpty(r) ==
    /\ pc[r] = "loop"
    /\ IF Len(pdf[r]) = 0
       THEN Raise(r)
       ELSE IF page_num[r] < Len(pdf[r])
            THEN LET page == pdf[r][page_num[r] + 1]
                 IN  IF page.ok
                     THEN /\ extracted_text' =
                               [extracted_text EXCEPT ![r] = AppendPage(@, page)]
                          /\ page_num' = [page_num EXCEPT ![r] = @ + 1]
                          /\ UNCHANGED <<fs, pc, file_path, pdf, resp>>
                     ELSE Raise(r)
            ELSE /\ pc' = [pc EXCEPT ![r] = "open_out"]
                 /\ UNCHANGED <<fs, file_path, pdf, page_num, extracted_text, resp>>
    /\ UNCHANGED <<req, before, invoked>>

\* for page_num in range(pdf.page_count): page = pdf[page_num]; ... ; return extracted_text
PageLoop(r) ==
    /\ pc[r] = "loop"
    /\ IF page_num[r] < Len(pdf[r])
       THEN LET page == pdf[r][page_num[r] + 1]
            IN  IF page.ok
                THEN /\ extracted_text' =
                          [extracted_text EXCEPT ![r] = AppendPage(@, page)]
                     /\ page_num' = [page_num EXCEPT ![r] = @ + 1]
                     /\ UNCHANGED <<fs, pc, file_path, pdf, resp>>
                ELSE Raise(r)
       ELSE /\ pc' = [pc EXCEPT ![r] = "open_out"]
            /\ UNCHANGED <<fs, file_path, pdf, page_num, extracted_text, resp>>
    /\ UNCHANGED <<req, before, invoked>>

\* an output file opened without being cut
OpenOutKeep(r) ==
    /\ pc[r] = "open_out"
    /\ fs' = [fs EXCEPT ![Out] = IF @.exists THEN @ ELSE Truncated(@)]
    /\ pc' = [pc EXCEPT ![r] = "write_out"]
    /\ UNCHANGED <<req, file_path, pdf, page_num, extracted_text, resp,
                   before, invoked>>

\* an output file opened only once no other request is writing or sending it
OpenOutLocked(r) ==
    /\ pc[r] = "open_out"
    /\ \A s \in Reqs \ {r} : pc[s] \notin {"write_out", "send"}
    /\ fs' = [fs EXCEPT ![Out] = Truncated(@)]
    /\ pc' = [pc EXCEPT ![r] = "write_out"]
    /\ UNCHANGED <<req, file_path, pdf, page_num, extracted_text, resp,
                   before, invoked>>

\* with open(output_file_path, 'w', encoding='utf-8') as text_file
OpenOut(r) ==
    /\ pc[r] = "open_out"
    /\ fs' = [fs EXCEPT ![Out] = Truncated(@)]
    /\ pc' = [pc EXCEPT ![r] = "write_out"]
    /\ UNCHANGED <<req, file_path, pdf, page_num, extracted_text, resp,
                   before, invoked>>

\* text_file.write(extracted_text), and the file is closed
WriteOut(r) ==
    /\ pc[r] = "write_out"
    /\ fs' = [fs EXCEPT ![Out] = WriteAt0(@, extracted_text[r])]
    /\ pc' = [pc EXCEPT ![r] = "send"]
    /\ UNCHANGED <<req, file_path, pdf, page_num, extracted_text, resp,
                   before, invoked>>

\* return send_file(output_file_path, as_attachment=True)
SendFile(r) ==
    /\ pc[r] = "send"
    /\ Respond(r, FileResponse(fs[Out]))
    /\ UNCHANGED <<fs, req, before, invoked>>

Step(r) ==
    \/ CheckFileField(r)
    \/ CheckFilename(r)
    \/ SaveOpen(r)
    \/ SaveWrite(r)
    \/ OpenPdf(r)
    \/ PageLoop(r)
    \/ OpenOut(r)
    \/ WriteOut(r)
    \/ SendFile(r)

\* no request is being handled
Quiet == \A s \in Reqs : pc[s] \in {"idle", "done"}

Receive(r) == Quiet /\ ReceiveFrom(r, Requests)

\* requests served one at a time
Next ==
    \/ \E r \in Reqs : Receive(r)
    \/ \E r \in Reqs : Step(r)

Spec == Init /\ [][Next]_vars

ConcReceive(r) == ReceiveFrom(r, ConcRequests)

\* requests served by concurrent threads
ConcNext ==
    \/ \E r \in Reqs : ConcReceive(r)
    \/ \E r \in Reqs : Step(r)

ConcSpec == Init /\ [][ConcNext]_vars

-----------------------------------------------------------------------------
(* Vocabulary of the properties *)

Done(r) == pc[r] = "done"

\* no later request has arrived
Latest(r) == r = NReq \/ pc[r + 1] = "idle"

Named(q) == q.hasFile /\ q.filename # EmptyName

\* a document the library opens and whose every page yields its text
Valid(q) ==
    /\ Named(q)
    /\ q.doc # "Junk"
    /\ \A i \in 1..Len(PagesOf(q.doc)) : PagesOf(q.doc)[i].ok

PageSep == <<"\n", "\n">>

RECURSIVE Flat(_)
Flat(ss) == IF Len(ss) = 0 THEN <<>> ELSE Head(ss) \o Flat(Tail(ss))

\* T1 + sep + T2 + sep + ... + TN + sep
Expected(pages) ==
    Flat([i \in 1..(2 * Len(pages)) |->
            IF i % 2 = 1 THEN pages[(i + 1) \div 2].text ELSE PageSep])

\* the file that the upload directory joined with the filename names
StoredAt(q) == Resolve(Join(UPLOAD_FOLDER, q.filename))

-----------------------------------------------------------------------------
(* Properties *)

\* C1: a request without a file field is answered 400 {"error": "No file
\* uploaded"}, whatever the directory held; it creates and modifies no file and
\* extract_pdf_data is not called.
C1_NoFileRejected ==
    \A r \in Reqs :
        Done(r) /\ ~req[r].hasFile =>
            /\ resp[r] = [status |-> 400, error |-> "No file uploaded",
                          file |-> Absent, attachment |-> FALSE]
            /\ ~invoked[r]
            /\ Latest(r) => fs = before[r]

\* a request without a file field was answered after an earlier upload had
\* filled the directory
C1_Witness ==
    \E r \in Reqs :
        /\ r > 1 /\ Done(r) /\ ~req[r].hasFile
        /\ resp[r - 1].status = 200
        /\ before[r][Out].exists
        /\ \E p \in Paths \ {Out} : before[r][p].exists

\* C2: a request whose file has an empty filename is answered 400 {"error":
\* "No selected file"}; the uploaded bytes are not stored and every file,
\* extracted_text.txt included, keeps its content.
C2_EmptyNameRejected ==
    \A r \in Reqs :
        Done(r) /\ req[r].hasFile /\ req[r].filename = EmptyName =>
            /\ resp[r] = [status |-> 400, error |-> "No selected file",
                          file |-> Absent, attachment |-> FALSE]
            /\ ~invoked[r]
            /\ Latest(r) => fs = before[r]

C2_Witness ==
    \E r \in Reqs :
        /\ Done(r) /\ req[r].hasFile /\ req[r].filename = EmptyName
        /\ req[r].doc = "A"
        /\ before[r][Out].exists

\* C3: a valid upload of a document with pages T1..TN, N >= 1, is answered 200
\* with T1 + "\n\n" + ... + TN + "\n\n", pages in order, each followed by the
\* separator, and that is the content written to extracted_text.txt.
C3_PagesConcatenated ==
    \A r \in Reqs :
        Done(r) /\ Valid(req[r]) /\ Len(PagesOf(req[r].doc)) >= 1 =>
            /\ resp[r].status = 200
            /\ resp[r].attachment
            /\ resp[r].file = File(Expected(PagesOf(req[r].doc)))
            /\ Latest(r) => fs[Out] = File(Expected(PagesOf(req[r].doc)))

\* the three-page document with a blank page and a repeated text was served
C3_Witness ==
    \E r \in Reqs :
        /\ Done(r) /\ req[r].doc = "B" /\ Named(req[r])
        /\ resp[r].file.data =
             <<"B", "\n", "\n", "\n", "\n", "B", "\n", "\n">>

\* C4: after non-overlapping successful uploads, extracted_text.txt and the
\* last response hold the extraction of the last document alone: the same
\* document gives the same content each time, and nothing of an earlier
\* result or of the earlier directory content stays in the output file.
C4_LastUploadWins ==
    \A r \in Reqs :
        Done(r) /\ resp[r].status = 200 /\ Named(req[r]) =>
            /\ Latest(r) => fs[Out] = resp[r].file
            /\ resp[r].file = File(Expected(PagesOf(req[r].doc)))
            /\ \A s \in Reqs :
                 Done(s) /\ resp[s].status = 200 /\ Named(req[s])
                 /\ req[s].doc = req[r].doc
                 => resp[s].file = resp[r].file

\* a shorter result replaced a longer one of a different document
C4_Witness ==
    \E r \in Reqs :
        /\ r > 1 /\ Done(r) /\ Done(r - 1)
        /\ resp[r].status = 200 /\ resp[r - 1].status = 200
        /\ req[r].doc # req[r - 1].doc
        /\ Len(resp[r].file.data) < Len(resp[r - 1].file.data)
        /\ fs[Out] = resp[r].file

\* C5: an unparseable upload under a non-empty filename is answered 500 with
\* no structured body; afterwards the service still takes requests, and a
\* valid upload that follows is answered 200 with its own extraction.
C5_FailureThenService ==
    \A r \in Reqs :
        /\ Done(r) /\ Named(req[r]) /\ req[r].doc = "Junk" =>
             /\ resp[r] = [status |-> 500, error |-> "", file |-> Absent,
                           attachment |-> FALSE]
             /\ (r < NReq /\ Latest(r)) => ENABLED Receive(r + 1)
        /\ (r > 1 /\ Done(r) /\ resp[r - 1].status = 500 /\ Valid(req[r])) =>
             /\ resp[r].status = 200
             /\ resp[r].file = File(Expected(PagesOf(req[r].doc)))

\* a valid upload was served under the name the failed upload had used
C5_Witness ==
    \E r \in Reqs :
        /\ r > 1 /\ Done(r) /\ Valid(req[r])
        /\ req[r - 1].doc = "Junk" /\ Named(req[r - 1])
        /\ req[r - 1].filename = req[r].filename
        /\ resp[r - 1].status = 500
        /\ resp[r].status = 200

\* C6: nothing makes a request wait for another: every step of a request in
\* flight can be taken whatever the other requests are doing (the reachable
\* race is C6_Witness).
C6_NoGuard ==
    \A r \in Reqs : pc[r] \notin {"idle", "done"} => ENABLED Step(r)

\* two overlapping valid uploads of different documents, and one is answered
\* 200 with a file that is not its own extraction
C6_Witness ==
    \E r, s \in Reqs :
        /\ r # s /\ Done(r) /\ Valid(req[r]) /\ Valid(req[s])
        /\ req[r].doc # req[s].doc
        /\ resp[r].status = 200
        /\ resp[r].file # File(Expected(PagesOf(req[r].doc)))

\* C7 (as claimed): after a 200, <upload_dir>/<filename> holds the uploaded
\* bytes and extracted_text.txt holds the extracted text, for every filename.
C7_BothFilesLeft ==
    \A r \in Reqs :
        Done(r) /\ Latest(r) /\ resp[r].status = 200 /\ Named(req[r]) =>
            /\ fs[StoredAt(req[r])] = File(Bytes(req[r].doc))
            /\ fs[Out] = File(Expected(PagesOf(req[r].doc)))

\* C8 (as claimed): a document opened with zero pages is answered 500 and
\* extracted_text.txt is not written.
C8_ZeroPagesFails ==
    \A r \in Reqs :
        Done(r) /\ Named(req[r]) /\ req[r].doc = "Zero" =>
            /\ resp[r].status = 500
            /\ Latest(r) => fs[Out] = before[r][Out]

\* C8 (amended): a document opened with zero pages is answered 200 with an
\* empty attachment, and extracted_text.txt is written empty.
C8_ZeroPagesEmptyOutput ==
    \A r \in Reqs :
        Done(r) /\ Named(req[r]) /\ req[r].doc = "Zero" =>
            /\ resp[r] = [status |-> 200, error |-> "", file |-> File(<<>>),
                          attachment |-> TRUE]
            /\ Latest(r) => fs[Out] = File(<<>>)

\* a zero-page document emptied an output file that held text
C8_Witness ==
    \E r \in Reqs :
        /\ Done(r) /\ Named(req[r]) /\ req[r].doc = "Zero"
        /\ Len(before[r][Out].data) > 0
        /\ fs[Out] = File(<<>>)

\* C9: the upload is stored at the upload directory joined with the filename
\* as the client gave it: under a name with a parent-directory component or
\* an absolute name the bytes land outside the upload directory.
C9_StoredVerbatim ==
    \A r \in Reqs :
        pc[r] = "open_pdf" =>
            /\ fs[Resolve(file_path[r])] = File(Bytes(req[r].doc))
            /\ req[r].filename = NameUp =>
                 /\ Resolve(file_path[r]) = <<"evil.pdf">>
                 /\ ~InUploadDir(Resolve(file_path[r]))
            /\ req[r].filename = NameAbs =>
                 /\ Resolve(file_path[r]) = <<"/", "tmp", "evil.pdf">>
                 /\ ~InUploadDir(Resolve(file_path[r]))
            /\ req[r].filename \in {NameA, OUTPUT_NAME} =>
                 Resolve(file_path[r]) = <<"uploads">> \o req[r].filename

\* files exist outside the upload directory, above it and at an absolute path
C9_Witness ==
    /\ fs[<<"evil.pdf">>].exists
    /\ fs[<<"/", "tmp", "evil.pdf">>].exists
    /\ \E p \in Paths : fs[p].exists /\ ~InUploadDir(p)

\* C10 (as claimed): when a page fails, extracted_text.txt is as it was before
\* the request, nothing is returned, and the raw upload is stored under its
\* filename.
C10_FailureKeepsOutput ==
    \A r \in Reqs :
        Done(r) /\ Latest(r) /\ Named(req[r]) /\ req[r].doc = "Bad" =>
            /\ resp[r] = [status |-> 500, error |-> "", file |-> Absent,
                          attachment |-> FALSE]
            /\ fs[Out] = before[r][Out]
            /\ fs[StoredAt(req[r])] = File(Bytes(req[r].doc))

====
